---- MODULE Spec2Model ----
(***************************************************************************)
(* Issue Reporter: the issue collection kept under one localStorage key,   *)
(* and the operations that read it, change it and report on it.            *)
(*                                                                         *)
(* Representation                                                          *)
(*   - A JavaScript string is a TLA+ string, except a title or a           *)
(*     description, which is a sequence of one-character strings so that   *)
(*     the CSV quoting can be computed character by character.             *)
(*   - An id is the pair <<t, r>>: Date.now().toString(36) followed by the *)
(*     digits of Math.random().toString(36).  The time part has the same   *)
(*     number of base-36 digits for every instant between 1972 and 2059,   *)
(*     so the pair determines the concatenated string and conversely.      *)
(*   - The value under the storage key is the record [kind, type, items]:  *)
(*     kind "absent" (getItem gives null), "empty" (the string ""),        *)
(*     "invalid" (text JSON.parse rejects) or "json" (text JSON.parse      *)
(*     accepts, denoting a value of the given type; items are the elements *)
(*     when the type is "array").                                          *)
(*   - Time is counted in milliseconds from the first instant of the run.  *)
(***************************************************************************)
EXTENDS Integers, Sequences, FiniteSets, TLC

VARIABLES
    storage,    \* localStorage[STORAGE_KEY]
    clock,      \* the last reading of Date.now()
    lastOp,     \* the last operation called and its argument
    prior,      \* what getIssuesFromStorage returned inside the last operation
    ret,        \* what the last operation returned (or produced)
    outcome,    \* "ok", or the error the last operation threw
    pc,         \* per tab: "idle", "loaded" (after getItem) or "done" (after setItem)
    job,        \* per tab: the operation in progress
    snap,       \* per tab: the array the operation loaded
    order,      \* the getItem / setItem events of the tabs, in order
    base        \* the stored value before the tabs started

vars == <<storage, clock, lastOp, prior, ret, outcome, pc, job, snap, order, base>>

(***************************************************************************)
(* Bounds of the model.                                                    *)
(***************************************************************************)
MaxIssues == 3      \* createIssue is not called on a collection this long
MaxTotal == 40      \* largest collection handed to getIssueStats alone
MaxSeed == 2        \* longest collection the two tabs start from

\* 7 * 24 * 60 * 60 * 1000
WEEK_MS == 604800000

\* The readings of Date.now() that are drawn: an instant and the instant one
\* week later, which is the first at which an issue of the former is no
\* longer recent.
Instants == {0, WEEK_MS}

\* The digit strings of Math.random() that are drawn.
Rands == {0, 1}

\* The value of a property that is undefined.
Undefined == "<undefined>"

Quote == "\""

\* issueData as the extended page passes it (tags optional): input k.
ExtendedInputs == {1, 2}

ExtendedData(k) ==
    IF k = 1
    THEN [title |-> <<"a">>, description |-> <<"d">>, priority |-> "high",
          tags |-> <<"bug", "ui">>]
    ELSE [title |-> <<Quote, "H", Quote>>, description |-> <<>>, priority |-> "low"]

\* issueData as the basic page passes it: input k.
BasicInputs == {1}

BasicData(k) ==
    [title |-> <<"b">>, description |-> <<"d">>, priority |-> Undefined]

\* The ids that generateId can make of them, the ids passed to deleteIssue
\* and toggleResolve.
IdPool == Instants \X Rands

\* The tabs; pc, job and snap are pairs indexed by them.
Tabs == {1, 2}

(***************************************************************************)
(* Helpers on sequences.                                                   *)
(***************************************************************************)
RECURSIVE SelectSeqBy(_, _)
\* Array.prototype.filter with the test "id differs from issueId".
SelectSeqBy(s, issueId) ==
    IF s = <<>> THEN <<>>
    ELSE IF Head(s).id # issueId
         THEN <<Head(s)>> \o SelectSeqBy(Tail(s), issueId)
         ELSE SelectSeqBy(Tail(s), issueId)

\* o[k], or undefined when o has no property k (k a string property).
Field(o, k) == IF k \in DOMAIN o THEN o[k] ELSE Undefined

\* issue.resolved as a condition (a missing property is falsy).
IsResolved(issue) == "resolved" \in DOMAIN issue /\ issue.resolved

\* (issue.tags || [])
TagsOf(issue) == IF "tags" \in DOMAIN issue THEN issue.tags ELSE <<>>

\* (issue.title || ''), (issue.description || '')
TextOf(issue, k) == IF k \in DOMAIN issue THEN issue[k] ELSE <<>>

(***************************************************************************)
(* Date and id conversions.                                                *)
(***************************************************************************)
toISOString(ms) == <<"iso", ms>>

\* new Date(s).getTime()
getTime(s) == s[2]

toLocaleString(s) == <<"locale", getTime(s)>>

\* Date.now().toString(36) + Math.random().toString(36).substr(2)
generateId(now, rnd) == <<now, rnd>>

(***************************************************************************)
(* JSON.                                                                   *)
(***************************************************************************)
Absent == [kind |-> "absent", type |-> "none", items |-> <<>>]

\* JSON.stringify of one issue object: a property whose value is undefined
\* is left out (the priority, of the properties an input may leave undefined).
stringifyObject(o) ==
    IF "priority" \in DOMAIN o /\ o.priority = Undefined
    THEN IF "tags" \in DOMAIN o
         THEN [id |-> o.id, title |-> o.title, description |-> o.description,
               tags |-> o.tags, date |-> o.date, resolved |-> o.resolved,
               views |-> o.views]
         ELSE [id |-> o.id, title |-> o.title, description |-> o.description,
               date |-> o.date, resolved |-> o.resolved]
    ELSE o

RECURSIVE stringifyEach(_)
stringifyEach(issues) ==
    IF issues = <<>> THEN <<>>
    ELSE <<stringifyObject(Head(issues))>> \o stringifyEach(Tail(issues))

\* JSON.stringify of an array of issues.
stringify(issues) ==
    [kind |-> "json", type |-> "array", items |-> stringifyEach(issues)]

\* JSON.parse: the value, or a SyntaxError.
parse(text) ==
    IF text.kind = "json"
    THEN [outcome |-> "ok", type |-> text.type, items |-> text.items]
    ELSE [outcome |-> "SyntaxError", type |-> "none", items |-> <<>>]

\* storedIssues ? JSON.parse(storedIssues) : []   (null and "" are falsy)
getIssuesFromStorage(st) ==
    IF st.kind \in {"absent", "empty"}
    THEN [outcome |-> "ok", type |-> "array", items |-> <<>>]
    ELSE parse(st)

saveIssuesToStorage(issues) == stringify(issues)

\* What an operation that uses the loaded value as an array runs into.
LoadError(loaded) ==
    IF loaded.outcome # "ok" THEN loaded.outcome
    ELSE IF loaded.type # "array" THEN "TypeError"
    ELSE "ok"

(***************************************************************************)
(* IEEE 754 double precision, for (resolved / total) * 100.  A positive    *)
(* double is [d, e]: its significand is 1.d[1]d[2]d[3]d[4] in base 2^13    *)
(* (1 + 4 * 13 = 53 bits) and e is the exponent of the leading 1, so its   *)
(* value is (2^52 + d[1]*2^39 + d[2]*2^26 + d[3]*2^13 + d[4]) * 2^(e-52).  *)
(* Zero is [d |-> <<>>, e |-> 0].                                          *)
(***************************************************************************)
LimbBits == 13

Limbs == 4

RECURSIVE Pow2(_)
Pow2(n) == IF n = 0 THEN 1 ELSE 2 * Pow2(n - 1)

LimbBase == Pow2(LimbBits)

FZero == [d |-> <<>>, e |-> 0]

RECURSIVE Increment(_, _)
\* The significand 1.d plus one unit in the last place: the digits, and
\* whether the carry ran into the leading 1 (the significand became 2.0).
Increment(d, i) ==
    IF i = 0 THEN [d |-> d, carry |-> TRUE]
    ELSE IF d[i] + 1 < LimbBase
         THEN [d |-> [d EXCEPT ![i] = d[i] + 1], carry |-> FALSE]
         ELSE Increment([d EXCEPT ![i] = 0], i - 1)

\* Round to nearest, ties to even: the exact value is (1.d + rem/unit ulp)
\* * 2^e with 0 <= rem < unit.
RoundToDouble(d, e, rem, unit) ==
    LET roundUp == 2 * rem > unit \/ (2 * rem = unit /\ d[Limbs] % 2 = 1)
        up == Increment(d, Limbs)
    IN  IF ~roundUp THEN [d |-> d, e |-> e]
        ELSE IF up.carry THEN [d |-> up.d, e |-> e + 1]
        ELSE [d |-> up.d, e |-> e]

RECURSIVE LongDivision(_, _, _, _)
\* The next n base-2^13 digits of rem / t, and the remainder left.
LongDivision(rem, t, n, acc) ==
    IF n = 0 THEN [d |-> acc, rem |-> rem]
    ELSE LongDivision((rem * LimbBase) % t, t, n - 1,
                      Append(acc, (rem * LimbBase) \div t))

RECURSIVE Normalise(_, _, _)
\* r * 2^k for the least k that makes it at least t, with -k.
Normalise(r, t, e) ==
    IF r >= t THEN [n |-> r, e |-> e] ELSE Normalise(2 * r, t, e - 1)

\* r / t in double arithmetic, for integers 0 <= r <= t, t > 0.
FDivide(r, t) ==
    IF r = 0 THEN FZero
    ELSE LET norm == Normalise(r, t, 0)
             q == LongDivision(norm.n - t, t, Limbs, <<>>)
         IN  RoundToDouble(q.d, norm.e, q.rem, t)

RECURSIVE TimesSmall(_, _, _, _, _)
\* 1.d * c, digit by digit from the last: the digits of the product below
\* the leading digit, and the leading digit (c plus the carry).
TimesSmall(d, i, c, carry, acc) ==
    IF i = 0 THEN [top |-> c + carry, d |-> acc]
    ELSE TimesSmall(d, i - 1, c, (d[i] * c + carry) \div LimbBase,
                    <<(d[i] * c + carry) % LimbBase>> \o acc)

RECURSIVE BitLength(_)
BitLength(n) == IF n = 0 THEN 0 ELSE 1 + BitLength(n \div 2)

RECURSIVE ShiftRight(_, _, _, _, _)
\* The digits d with `carry` above them, shifted right by s bits: the
\* digits, and the bits shifted out.
ShiftRight(d, i, s, carry, acc) ==
    IF i > Len(d) THEN [d |-> acc, rem |-> carry]
    ELSE ShiftRight(d, i + 1, s, (carry * LimbBase + d[i]) % Pow2(s),
                    Append(acc, (carry * LimbBase + d[i]) \div Pow2(s)))

\* x * c in double arithmetic, for an integer 1 <= c < 2^13.
FTimes(x, c) ==
    IF x.d = <<>> THEN FZero
    ELSE LET product == TimesSmall(x.d, Limbs, c, 0, <<>>)
             s == BitLength(product.top) - 1
             shifted == ShiftRight(product.d, 1, s, product.top % Pow2(s), <<>>)
         IN  RoundToDouble(shifted.d, x.e + s, shifted.rem, Pow2(s))

\* floor(x), for 0 <= x < 2^13.
Floor(x) ==
    IF x.d = <<>> \/ x.e < 0 THEN 0
    ELSE Pow2(x.e) + (x.d[1] \div Pow2(LimbBits - x.e))

\* The bit of x of weight 1/2, for 0 <= x < 2^12.
HalfBit(x) ==
    IF x.d = <<>> \/ x.e < -1 THEN 0
    ELSE IF x.e = -1 THEN 1
    ELSE (x.d[1] \div Pow2(LimbBits - x.e - 1)) % 2

\* Math.round(x) for x >= 0: floor(x + 1/2), exactly.
MathRound(x) == Floor(x) + HalfBit(x)

\* total > 0 ? Math.round((resolved / total) * 100) : 0
resolutionRate(resolved, total) ==
    IF total > 0 THEN MathRound(FTimes(FDivide(resolved, total), 100)) ELSE 0

(***************************************************************************)
(* Issue CRUD.                                                             *)
(***************************************************************************)
NewIssue(issueData, now, rnd) ==
    [id |-> generateId(now, rnd),
     title |-> issueData.title,
     description |-> issueData.description,
     priority |-> issueData.priority,
     tags |-> IF "tags" \in DOMAIN issueData THEN issueData.tags ELSE <<>>,
     date |-> toISOString(now),
     resolved |-> FALSE,
     views |-> 0]

NewIssueBasic(issueData, now, rnd) ==
    [id |-> generateId(now, rnd),
     title |-> issueData.title,
     description |-> issueData.description,
     priority |-> issueData.priority,
     date |-> toISOString(now),
     resolved |-> FALSE]

\* issues.unshift(newIssue)
unshift(issues, newIssue) == <<newIssue>> \o issues

\* A faulty filter, with the test inverted: issue.id === issueId.
filterKeepsMatching(issues, issueId) ==
    SelectSeq(issues, LAMBDA issue : issue.id = issueId)

\* A faulty delete: issues.splice(issues.findIndex(i => i.id === issueId), 1),
\* which removes the last issue when findIndex gives -1.
filterRemovesAtFoundIndex(issues, issueId) ==
    LET hits == {i \in 1..Len(issues) : issues[i].id = issueId}
        at == IF hits = {} THEN Len(issues)
              ELSE CHOOSE i \in hits : \A j \in hits : i <= j
    IN  IF issues = <<>> THEN <<>>
        ELSE SubSeq(issues, 1, at - 1) \o SubSeq(issues, at + 1, Len(issues))

\* issues.filter(issue => issue.id !== issueId)
filterOut(issues, issueId) == SelectSeqBy(issues, issueId)

\* A faulty toggle: { ...issue, resolved: true }.
RECURSIVE mapSetResolved(_, _)
mapSetResolved(issues, issueId) ==
    IF issues = <<>> THEN <<>>
    ELSE <<IF Head(issues).id = issueId
           THEN [Head(issues) EXCEPT !.resolved = TRUE]
           ELSE Head(issues)>> \o mapSetResolved(Tail(issues), issueId)

\* issues.map(issue => issue.id === issueId
\*                       ? { ...issue, resolved: !issue.resolved } : issue)
RECURSIVE mapToggle(_, _)
mapToggle(issues, issueId) ==
    IF issues = <<>> THEN <<>>
    ELSE <<IF Head(issues).id = issueId
           THEN [Head(issues) EXCEPT !.resolved = ~IsResolved(Head(issues))]
           ELSE Head(issues)>> \o mapToggle(Tail(issues), issueId)

(***************************************************************************)
(* Statistics.                                                             *)
(***************************************************************************)
\* issues.filter(i => i.priority === p).length
priorityCount(issues, p) ==
    Cardinality({i \in 1..Len(issues) : Field(issues[i], "priority") = p})

TagPlaces(issues) ==
    UNION {{<<i, j>> : j \in 1..Len(TagsOf(issues[i]))} : i \in 1..Len(issues)}

\* byTag[tag] = (byTag[tag] || 0) + 1, for each tag of each issue.
byTag(issues) ==
    [tag \in {TagsOf(issues[p[1]])[p[2]] : p \in TagPlaces(issues)} |->
        Cardinality({p \in TagPlaces(issues) : TagsOf(issues[p[1]])[p[2]] = tag})]

\* A faulty count, with the test inverted: the issues a week old or older.
recentCountOlder(issues, now) ==
    Cardinality({i \in 1..Len(issues) : getTime(issues[i].date) <= now - WEEK_MS})

\* issues.filter(i => new Date(i.date).getTime() > oneWeekAgo).length
recentCount(issues, now) ==
    Cardinality({i \in 1..Len(issues) : getTime(issues[i].date) > now - WEEK_MS})

resolvedCount(issues) ==
    Cardinality({i \in 1..Len(issues) : IsResolved(issues[i])})

IssueStats(issues, now) ==
    [total |-> Len(issues),
     resolved |-> resolvedCount(issues),
     open |-> Len(issues) - resolvedCount(issues),
     byPriority |-> [high |-> priorityCount(issues, "high"),
                     medium |-> priorityCount(issues, "medium"),
                     low |-> priorityCount(issues, "low")],
     byTag |-> byTag(issues),
     recentIssues |-> recentCount(issues, now),
     resolutionRate |-> resolutionRate(resolvedCount(issues), Len(issues))]

(***************************************************************************)
(* CSV export.  A line is the sequence of its cells (joined by ","), the   *)
(* content the sequence of its lines (joined by "\n").                     *)
(***************************************************************************)
headers == <<"ID", "Title", "Description", "Priority", "Tags", "Status", "Date Created">>

RECURSIVE DoubleQuotes(_)
\* text.replace(/"/g, '""')
DoubleQuotes(text) ==
    IF text = <<>> THEN <<>>
    ELSE (IF Head(text) = Quote THEN <<Quote, Quote>> ELSE <<Head(text)>>)
         \o DoubleQuotes(Tail(text))

Quoted(text) == <<Quote>> \o DoubleQuotes(text) \o <<Quote>>

RECURSIVE Join(_, _)
\* tags.join(sep), as the sequence of its pieces
Join(tags, sep) ==
    IF Len(tags) <= 1 THEN tags
    ELSE <<Head(tags), sep>> \o Join(Tail(tags), sep)

csvRow(issue) ==
    <<issue.id,
      Quoted(TextOf(issue, "title")),
      Quoted(TextOf(issue, "description")),
      IF "priority" \in DOMAIN issue THEN issue.priority ELSE "",
      Join(TagsOf(issue), ";"),
      IF IsResolved(issue) THEN "Resolved" ELSE "Open",
      toLocaleString(issue.date)>>

RECURSIVE csvRows(_)
\* issues.map(issue => [...])
csvRows(issues) ==
    IF issues = <<>> THEN <<>>
    ELSE <<csvRow(Head(issues))>> \o csvRows(Tail(issues))

\* A faulty export: the rows of the open issues only.
csvContentOpenOnly(issues) ==
    <<headers>> \o SelectSeq(csvRows(issues), LAMBDA row : row[6] = "Open")

\* [headers.join(','), ...rows.map(row => row.join(','))]
csvContent(issues) == <<headers>> \o csvRows(issues)

NoValue == [type |-> "undefined"]

NoJob == [name |-> "none"]

TabsIdle ==
    /\ pc = <<"idle", "idle">>
    /\ job = <<NoJob, NoJob>>
    /\ snap = <<<<>>, <<>>>>
    /\ order = <<>>
    /\ base = Absent

Init ==
    /\ storage = Absent
    /\ clock = 0
    /\ lastOp = [name |-> "none"]
    /\ prior = <<>>
    /\ ret = NoValue
    /\ outcome = "ok"
    /\ TabsIdle

\* The part every whole operation shares: Date.now() does not go back, the
\* tabs' variables are not touched.
Called(now) ==
    /\ now \in Instants
    /\ now >= clock
    /\ clock' = now
    /\ UNCHANGED <<pc, job, snap, order, base>>

\* An operation that threw while loading leaves the store as it was.
Threw(err) ==
    /\ outcome' = err
    /\ prior' = <<>>
    /\ ret' = NoValue
    /\ storage' = storage

Load ==
    \E now \in Instants :
        /\ Called(now)
        /\ lastOp' = [name |-> "getIssuesFromStorage"]
        /\ LET loaded == getIssuesFromStorage(storage)
           IN  /\ outcome' = loaded.outcome
               /\ ret' = IF loaded.outcome = "ok"
                         THEN [type |-> loaded.type, items |-> loaded.items]
                         ELSE NoValue
               /\ prior' = <<>>
               /\ storage' = storage

\* The extended page and the basic page are two programs, and a collection
\* is the work of one of them: its issues have the properties of newIssue.
SamePage(issues, newIssue) ==
    \A i \in 1..Len(issues) : DOMAIN issues[i] \subseteq DOMAIN newIssue

CreateWith(newIssue, issueData) ==
    /\ lastOp' = [name |-> "createIssue", data |-> issueData]
    /\ LET loaded == getIssuesFromStorage(storage)
       IN  IF LoadError(loaded) # "ok" THEN Threw(LoadError(loaded))
           ELSE /\ Len(loaded.items) < MaxIssues
                /\ SamePage(loaded.items, newIssue)
                /\ storage' = saveIssuesToStorage(unshift(loaded.items, newIssue))
                /\ prior' = loaded.items
                /\ ret' = newIssue
                /\ outcome' = "ok"

createIssue ==
    \E k \in ExtendedInputs, now \in Instants, rnd \in Rands :
        /\ Called(now)
        /\ CreateWith(NewIssue(ExtendedData(k), now, rnd), ExtendedData(k))

createIssueBasic ==
    \E k \in BasicInputs, now \in Instants, rnd \in Rands :
        /\ Called(now)
        /\ CreateWith(NewIssueBasic(BasicData(k), now, rnd), BasicData(k))

deleteIssue ==
    \E issueId \in IdPool :
        /\ Called(clock)
        /\ lastOp' = [name |-> "deleteIssue", id |-> issueId]
        /\ LET loaded == getIssuesFromStorage(storage)
           IN  IF LoadError(loaded) # "ok" THEN Threw(LoadError(loaded))
               ELSE /\ storage' = saveIssuesToStorage(filterOut(loaded.items, issueId))
                    /\ prior' = loaded.items
                    /\ ret' = NoValue
                    /\ outcome' = "ok"

toggleResolve ==
    \E issueId \in IdPool :
        /\ Called(clock)
        /\ lastOp' = [name |-> "toggleResolve", id |-> issueId]
        /\ LET loaded == getIssuesFromStorage(storage)
           IN  IF LoadError(loaded) # "ok" THEN Threw(LoadError(loaded))
               ELSE /\ storage' = saveIssuesToStorage(mapToggle(loaded.items, issueId))
                    /\ prior' = loaded.items
                    /\ ret' = NoValue
                    /\ outcome' = "ok"

getIssueStats ==
    \E now \in Instants :
        /\ Called(now)
        /\ lastOp' = [name |-> "getIssueStats"]
        /\ LET loaded == getIssuesFromStorage(storage)
           IN  IF LoadError(loaded) # "ok" THEN Threw(LoadError(loaded))
               ELSE /\ ret' = IssueStats(loaded.items, now)
                    /\ prior' = loaded.items
                    /\ outcome' = "ok"
                    /\ storage' = storage

exportToCSV ==
    /\ Called(clock)
    /\ lastOp' = [name |-> "exportToCSV"]
    /\ LET loaded == getIssuesFromStorage(storage)
       IN  IF LoadError(loaded) # "ok" THEN Threw(LoadError(loaded))
           ELSE /\ ret' = IF Len(loaded.items) = 0
                          THEN [downloaded |-> FALSE, content |-> <<>>,
                                toast |-> "No issues to export"]
                          ELSE [downloaded |-> TRUE,
                                content |-> csvContent(loaded.items),
                                toast |-> "Issues exported to CSV"]
                /\ prior' = loaded.items
                /\ outcome' = "ok"
                /\ storage' = storage

Next ==
    \/ Load
    \/ createIssue
    \/ createIssueBasic
    \/ deleteIssue
    \/ toggleResolve
    \/ getIssueStats
    \/ exportToCSV

Spec == Init /\ [][Next]_vars

(***************************************************************************)
(* The store as anything may have left it: the operations on a value that  *)
(* is no JSON, or JSON but no array.                                       *)
(***************************************************************************)
RawStores ==
    {Absent,
     [kind |-> "empty", type |-> "none", items |-> <<>>],
     [kind |-> "invalid", type |-> "none", items |-> <<>>]}
    \cup {[kind |-> "json", type |-> ty, items |-> <<>>] :
            ty \in {"null", "number", "string", "boolean", "object", "array"}}

InitRaw ==
    /\ storage \in RawStores
    /\ clock = 0
    /\ lastOp = [name |-> "none"]
    /\ prior = <<>>
    /\ ret = NoValue
    /\ outcome = "ok"
    /\ TabsIdle

SpecRaw == InitRaw /\ [][Next]_vars

(***************************************************************************)
(* getIssueStats alone, on collections of up to MaxTotal issues.           *)
(***************************************************************************)
\* total issues created in one millisecond, the first `resolved` of them
\* toggled since.
RECURSIVE Collection(_, _)
Collection(total, resolved) ==
    IF total = 0 THEN <<>>
    ELSE Append(Collection(total - 1, resolved),
                [NewIssue([title |-> <<"a">>, description |-> <<"d">>,
                           priority |-> "high"], 0, total)
                 EXCEPT !.resolved = (total <= resolved)])

InitRate ==
    /\ \E total \in 0..MaxTotal : \E resolved \in 0..total :
            storage = saveIssuesToStorage(Collection(total, resolved))
    /\ clock = 0
    /\ lastOp = [name |-> "none"]
    /\ prior = <<>>
    /\ ret = NoValue
    /\ outcome = "ok"
    /\ TabsIdle

NextRate == getIssueStats

SpecRate == InitRate /\ [][NextRate]_vars

(***************************************************************************)
(* Two tabs on the same storage key.  Inside one tab an operation runs to  *)
(* completion, but the other tab's getItem and setItem may fall between    *)
(* its getItem and its setItem.  Each tab runs one operation.              *)
(***************************************************************************)
SeedIssue(now, rnd, resolved) ==
    [stringifyObject(NewIssue([title |-> <<"a">>, description |-> <<"d">>,
                               priority |-> "high", tags |-> <<"bug">>], now, rnd))
     EXCEPT !.resolved = resolved]

RECURSIVE SeedCollections(_)
\* The collections of up to n issues that createIssue and toggleResolve
\* leave: newest first, here with ids that differ.
SeedCollections(n) ==
    IF n = 0 THEN {<<>>}
    ELSE LET shorter == SeedCollections(n - 1)
             longer == {<<SeedIssue(now, rnd, resolved)>> \o issues :
                            issues \in {x \in shorter : Len(x) = n - 1},
                            now \in Instants, rnd \in Rands, resolved \in BOOLEAN}
         IN  shorter \cup
             {x \in longer :
                /\ \A i \in 2..Len(x) : x[i].id # x[1].id
                /\ Len(x) > 1 => getTime(x[1].date) >= getTime(x[2].date)}

InitTabs ==
    /\ \E issues \in SeedCollections(MaxSeed) :
            /\ storage = saveIssuesToStorage(issues)
            /\ clock = IF issues = <<>> THEN 0 ELSE getTime(issues[1].date)
    /\ base = storage
    /\ lastOp = [name |-> "none"]
    /\ prior = <<>>
    /\ ret = NoValue
    /\ outcome = "ok"
    /\ pc = <<"idle", "idle">>
    /\ job = <<NoJob, NoJob>>
    /\ snap = <<<<>>, <<>>>>
    /\ order = <<>>

\* The tab's operation up to and including its getIssuesFromStorage().
TabLoad(t, j) ==
    /\ pc[t] = "idle"
    /\ pc' = [pc EXCEPT ![t] = "loaded"]
    /\ job' = [job EXCEPT ![t] = j]
    /\ snap' = [snap EXCEPT ![t] = getIssuesFromStorage(storage).items]
    /\ order' = Append(order, <<t, "getItem">>)
    /\ UNCHANGED <<storage, base, lastOp, prior, ret, outcome>>

TabCreateLoad(t) ==
    \E k \in ExtendedInputs, now \in Instants, rnd \in Rands :
        /\ now >= clock
        /\ clock' = now
        /\ TabLoad(t, [name |-> "createIssue",
                       issue |-> NewIssue(ExtendedData(k), now, rnd)])

TabDeleteLoad(t) ==
    \E issueId \in IdPool :
        /\ clock' = clock
        /\ TabLoad(t, [name |-> "deleteIssue", id |-> issueId])

TabToggleLoad(t) ==
    \E issueId \in IdPool :
        /\ clock' = clock
        /\ TabLoad(t, [name |-> "toggleResolve", id |-> issueId])

\* What an operation makes of the array it works on.
Updated(j, issues) ==
    CASE j.name = "createIssue" -> unshift(issues, j.issue)
      [] j.name = "deleteIssue" -> filterOut(issues, j.id)
      [] j.name = "toggleResolve" -> mapToggle(issues, j.id)

\* What the tab would save if it loaded again when saving.
TabResultReloads(t) == Updated(job[t], getIssuesFromStorage(storage).items)

\* The array the tab's operation saves: made from the array it loaded.
TabResult(t) == Updated(job[t], snap[t])

\* The rest of the tab's operation: saveIssuesToStorage(...).
TabSave(t) ==
    /\ pc[t] = "loaded"
    /\ storage' = saveIssuesToStorage(TabResult(t))
    /\ pc' = [pc EXCEPT ![t] = "done"]
    /\ order' = Append(order, <<t, "setItem">>)
    /\ UNCHANGED <<clock, job, snap, base, lastOp, prior, ret, outcome>>

NextTabs ==
    \E t \in Tabs :
        \/ TabCreateLoad(t)
        \/ TabDeleteLoad(t)
        \/ TabToggleLoad(t)
        \/ TabSave(t)

SpecTabs == InitTabs /\ [][NextTabs]_vars

(***************************************************************************)
(* Properties.                                                             *)
(***************************************************************************)
\* The collection read back from storage.
Stored == getIssuesFromStorage(storage).items

Did(name) == lastOp.name = name /\ outcome = "ok"

Ids(issues) == {issues[i].id : i \in 1..Len(issues)}

\* Every property of `issue` that is defined is that of `stored`.
SameDefined(issue, stored) ==
    \A k \in DOMAIN stored : stored[k] = issue[k]

\* C1: after createIssue(d) the returned issue has an id that no issue of
\* the prior collection had, has resolved = false, and is at index 0 of the
\* collection read back, the prior issues following it unchanged and in
\* their prior order.
C1_CreateFreshAtFront ==
    Did("createIssue") =>
        /\ ret.id \notin Ids(prior)
        /\ ret.resolved = FALSE
        /\ Len(Stored) = Len(prior) + 1
        /\ Stored[1].id = ret.id
        /\ SameDefined(ret, Stored[1])
        /\ \A i \in 1..Len(prior) : Stored[i + 1] = prior[i]

\* The part of C1 that does not rest on the id being fresh: the returned
\* issue is unresolved and first in the collection read back, followed by
\* the prior issues, unchanged and in order.
CreateAtFront ==
    Did("createIssue") =>
        /\ ret.resolved = FALSE
        /\ Len(Stored) = Len(prior) + 1
        /\ Stored[1].id = ret.id
        /\ SameDefined(ret, Stored[1])
        /\ \A i \in 1..Len(prior) : Stored[i + 1] = prior[i]

\* C2: after deleteIssue(id) for an id present in the collection, the
\* collection read back has no issue with that id, and every other issue is
\* unchanged and in the same relative order.
C2_DeleteRemovesOnlyThat ==
    (Did("deleteIssue") /\ lastOp.id \in Ids(prior)) =>
        LET keep == {i \in 1..Len(prior) : prior[i].id # lastOp.id}
        IN  /\ lastOp.id \notin Ids(Stored)
            /\ Len(Stored) = Cardinality(keep)
            /\ \A i \in keep : Stored[Cardinality({j \in keep : j <= i})] = prior[i]

C2_Witness ==
    /\ Did("deleteIssue")
    /\ Len(prior) = 3
    /\ prior[2].id = lastOp.id
    /\ Len(Stored) = 2

\* C3: toggleResolve(id) flips exactly the resolved field of the issue
\* whose id matches and leaves every other field of it, every other issue
\* and the order untouched; toggleResolve(id) once more restores the stored
\* collection.
C3_ToggleFlipsAndUndoes ==
    Did("toggleResolve") =>
        /\ Len(Stored) = Len(prior)
        /\ \A i \in 1..Len(prior) :
                IF prior[i].id = lastOp.id
                THEN /\ DOMAIN Stored[i] = DOMAIN prior[i]
                     /\ Stored[i].resolved = ~prior[i].resolved
                     /\ \A k \in DOMAIN prior[i] \ {"resolved"} :
                            Stored[i][k] = prior[i][k]
                ELSE Stored[i] = prior[i]
        /\ getIssuesFromStorage(
               saveIssuesToStorage(mapToggle(Stored, lastOp.id))).items = prior

C3_Witness ==
    /\ Did("toggleResolve")
    /\ Len(prior) = 3
    /\ prior[2].id = lastOp.id
    /\ prior[2].resolved
    /\ ~Stored[2].resolved
    /\ prior[1].id # lastOp.id

\* C4: from an empty store, after any createIssue, deleteIssue and
\* toggleResolve calls, no two issues of the stored collection have the
\* same id.
C4_IdsUnique ==
    \A i \in 1..Len(Stored) : \A j \in 1..Len(Stored) :
        Stored[i].id = Stored[j].id => i = j

\* C5: for an id that matches no issue, deleteIssue(id) and
\* toggleResolve(id) complete without error and the collection read back
\* afterwards is the one before the call.
C5_UnknownIdNoOp ==
    (lastOp.name \in {"deleteIssue", "toggleResolve"}
        /\ lastOp.id \notin Ids(prior)) =>
            /\ outcome = "ok"
            /\ Stored = prior

C5_Witness ==
    /\ Did("deleteIssue")
    /\ Len(prior) = 2
    /\ lastOp.id \notin Ids(prior)
    /\ Stored = prior

\* A second getIssueStats right after the first, Date.now() reading now.
StatsAgain(now) == IssueStats(Stored, now)

\* C6 as written: getIssueStats does not change the stored collection, and
\* a second call right after it returns identical results for every field.
C6_StatsTwiceIdentical ==
    Did("getIssueStats") =>
        /\ Stored = prior
        /\ \A now \in Instants : now >= clock => StatsAgain(now) = ret

\* C6 as amended: getIssueStats does not change the stored collection; a
\* second call right after it returns the same total, resolved, open,
\* byPriority, byTag and resolutionRate, and a recentIssues that is the
\* same when Date.now() reads the same and never larger when it reads later.
C6_StatsTwiceButRecent ==
    Did("getIssueStats") =>
        /\ Stored = prior
        /\ \A now \in Instants : now >= clock =>
                /\ \A f \in DOMAIN ret \ {"recentIssues"} : StatsAgain(now)[f] = ret[f]
                /\ StatsAgain(now).recentIssues <= ret.recentIssues
                /\ now = clock => StatsAgain(now).recentIssues = ret.recentIssues

C6_Witness ==
    /\ Did("getIssueStats")
    /\ ret.total = 2
    /\ ret.recentIssues = 2
    /\ \E now \in Instants : now >= clock /\ StatsAgain(now).recentIssues = 0

\* round(100 * resolved / total), a half rounding up.
RoundedPercent(resolved, total) == (200 * resolved + total) \div (2 * total)

\* C7: getIssueStats returns resolutionRate = round(100 * resolved / total),
\* and 0 for the empty collection; 3 issues with 1 resolved give 33.
C7_ResolutionRateRounded ==
    Did("getIssueStats") =>
        ret.resolutionRate =
            IF Len(prior) = 0 THEN 0
            ELSE RoundedPercent(resolvedCount(prior), Len(prior))

\* C8 as written: exportToCSV produces the header row followed by exactly
\* one row per stored issue, in stored order, also for the empty collection.
C8_CsvHeaderAndRows ==
    Did("exportToCSV") =>
        /\ ret.downloaded
        /\ Len(ret.content) = 1 + Len(prior)
        /\ ret.content[1] = headers
        /\ \A i \in 1..Len(prior) : ret.content[i + 1][1] = prior[i].id

\* C8 as amended: for a collection that is not empty, exportToCSV produces
\* the header row followed by exactly one row per stored issue, in stored
\* order; for the empty collection it produces no file and warns
\* "No issues to export".
C8_CsvHeaderAndRowsUnlessEmpty ==
    Did("exportToCSV") =>
        IF Len(prior) = 0
        THEN ~ret.downloaded /\ ret.content = <<>> /\ ret.toast = "No issues to export"
        ELSE /\ ret.downloaded
             /\ Len(ret.content) = 1 + Len(prior)
             /\ ret.content[1] = headers
             /\ \A i \in 1..Len(prior) :
                    /\ ret.content[i + 1][1] = prior[i].id
                    /\ ret.content[i + 1][6] =
                           IF prior[i].resolved THEN "Resolved" ELSE "Open"

C8_Witness ==
    /\ Did("exportToCSV")
    /\ Len(prior) = 3
    /\ Len(ret.content) = 4
    /\ prior[2].resolved
    /\ ~prior[1].resolved

\* C9: getIssuesFromStorage returns an empty sequence when the key is
\* absent, the parsed array when the stored value is a JSON array, and fails
\* whenever the stored value is not valid JSON or is JSON but no array.
C9_LoadFailsOnCorrupt ==
    lastOp.name = "getIssuesFromStorage" =>
        CASE storage.kind = "absent" ->
                outcome = "ok" /\ ret.type = "array" /\ ret.items = <<>>
          [] storage.kind = "json" /\ storage.type = "array" ->
                outcome = "ok" /\ ret.type = "array" /\ ret.items = storage.items
          [] OTHER -> outcome # "ok"

\* The two tabs are done; `later` saved last.
TabsDone == \A t \in Tabs : pc[t] = "done"

LaterTab == order[4][1]

EarlierTab == CHOOSE t \in Tabs : t # LaterTab

\* Both tabs loaded before either saved.
Interleaved == order[1][2] = "getItem" /\ order[2][2] = "getItem"

BaseIssues == getIssuesFromStorage(base).items

\* What the later operation alone makes of the collection the tabs found.
LaterAlone == saveIssuesToStorage(Updated(job[LaterTab], BaseIssues))

\* What the two operations make of it one after the other.
OneAfterTheOther ==
    saveIssuesToStorage(
        Updated(job[LaterTab],
                getIssuesFromStorage(
                    saveIssuesToStorage(Updated(job[EarlierTab], BaseIssues))).items))

\* C10: when two mutating operations of two tabs both load before either
\* saves, the final stored collection is the one the later save wrote from
\* its own snapshot and the effect of the earlier save is lost; when each
\* load follows the other operation's save, both effects are present.
C10_LastSaveWins ==
    TabsDone =>
        IF Interleaved
        THEN /\ storage = saveIssuesToStorage(Updated(job[LaterTab], snap[LaterTab]))
             /\ storage = LaterAlone
        ELSE storage = OneAfterTheOther

C10_Witness ==
    /\ TabsDone
    /\ Interleaved
    /\ job[EarlierTab].name = "createIssue"
    /\ job[LaterTab].name = "toggleResolve"
    /\ job[LaterTab].id \in Ids(BaseIssues)
    /\ job[EarlierTab].issue.id \notin Ids(Stored)
    /\ storage # OneAfterTheOther

====
